---------------------------- MODULE Spec2Model ----------------------------
(***************************************************************************)
(* A model of the App Store Server API client of go-iap                    *)
(* (appstore/api/store.go): the signed-payload verification path           *)
(* (ParseSignedTransactions / parseSignedTransaction) and the              *)
(* authenticated transport (Do) with the endpoint operations built on it.  *)
(*                                                                         *)
(* Two specifications share the module:                                    *)
(*   SpecVerify  - one call of ParseSignedTransactions on a list of        *)
(*                 signed payloads;                                        *)
(*   Spec        - a client being constructed and then used for a          *)
(*                 sequence of endpoint operations while time passes.      *)
(***************************************************************************)
EXTENDS Integers, Sequences, FiniteSets, TLC

VARIABLES
    \* ---- signed-payload verification (SpecVerify) ----
    transactions,   \* the argument of ParseSignedTransactions
    idx,            \* number of elements the range loop has consumed
    result,         \* the local slice `result`
    parsed,         \* what parseSignedTransaction returned for each element so far
    vret,           \* what ParseSignedTransactions returned (Null while running)
    \* ---- client and transport (Spec) ----
    client,         \* the *StoreClient (NoClient before construction)
    cached,         \* the Token's cached bearer token
    now,            \* the wall clock
    call,           \* the endpoint operation in progress (NoCall at first)
    wire,           \* requests put on the wire by the current/last operation
    served,         \* Do results observed by the current/last operation
    lastDo,         \* what the most recent Do invocation did
    ret             \* what the last finished endpoint operation returned

verifyVars == <<transactions, idx, result, parsed, vret>>
apiVars    == <<client, cached, now, call, wire, served, lastDo, ret>>
vars       == <<transactions, idx, result, parsed, vret,
                client, cached, now, call, wire, served, lastDo, ret>>

\* Go's nil error, and a nil pointer / absent value; a nil slice is the empty
\* sequence (it has no elements).
Nil  == "nil"
Null == [null |-> TRUE]
NilSlice == <<>>

(***************************************************************************)
(* Bounds of the model.                                                    *)
(***************************************************************************)
MaxBatch == 3
MaxTime == 3
MaxRequests == 2

(***************************************************************************)
(* Signed payloads.  A payload is described by what each step of           *)
(* parseSignedTransaction will find in it:                                 *)
(*   x5c[i]   - the i-th entry of the x5c header: "missing" (no header,    *)
(*              index out of range, bad base64), "garbled" (bytes that are *)
(*              no X.509 certificate) or "der" (a certificate);            *)
(*   chain    - what verifying root/intermediate/leaf finds;               *)
(*   leafKey  - the type of the leaf certificate's public key;             *)
(*   signedBy - whose private key made the JWS signature: the owner of the *)
(*              certificate in slot 0 (leaf) or 2 (root), or 3 for a key   *)
(*              outside the chain;                                         *)
(*   body     - whether the JWS segments and claims decode;                *)
(*   id       - the claims carried (the transaction).                      *)
(***************************************************************************)
CertSlots  == 0..2
Outsider   == Cardinality(CertSlots)
X5cForms   == {"missing", "garbled", "der"}
ChainStates == {"ok", "broken", "expired", "untrusted"}

Payloads ==
    [x5c : [CertSlots -> X5cForms], chain : ChainStates,
     leafKey : {"ecdsa", "rsa"}, signedBy : {0, 2, Outsider},
     body : {"ok", "malformed"}, id : {"t1", "t2"}]

GoodPayload(i) ==
    [x5c |-> [s \in CertSlots |-> "der"], chain |-> "ok", leafKey |-> "ecdsa",
     signedBy |-> 0, body |-> "ok", id |-> i]

\* The payloads longer batches are built from: the two genuine ones, and
\* t1 tampered with in one way (a forged signature, an untrusted root, a
\* missing x5c entry, a garbled leaf certificate).
BatchPayloads ==
    {GoodPayload("t1"), GoodPayload("t2"),
     [GoodPayload("t1") EXCEPT !.signedBy = Outsider],
     [GoodPayload("t1") EXCEPT !.chain = "untrusted"],
     [GoodPayload("t1") EXCEPT !.x5c[2] = "missing"],
     [GoodPayload("t1") EXCEPT !.x5c[0] = "garbled"]}

\* The arguments of ParseSignedTransactions: every single payload, and the
\* lists of up to MaxBatch of the payloads above.
Batches ==
    {<<p>> : p \in Payloads}
      \cup UNION {[1..n -> BatchPayloads] : n \in 0..MaxBatch}

(***************************************************************************)
(* The helpers parseSignedTransaction calls.                               *)
(***************************************************************************)
\* a.cert.extractCertByIndex(transaction, i): the bytes of x5c[i], or an error.
extractCertByIndex(transaction, i) ==
    IF transaction.x5c[i] = "missing"
    THEN [bytes |-> Null, err |-> "MissingChain"]
    ELSE [bytes |-> [slot |-> i, form |-> transaction.x5c[i],
                     keyType |-> IF i = 0 THEN transaction.leafKey ELSE "ecdsa",
                     chain |-> transaction.chain],
          err |-> Nil]

\* x509.ParseCertificate(bytes)
x509ParseCertificate(bytes) ==
    IF bytes.form = "der"
    THEN [cert |-> [slot |-> bytes.slot, chain |-> bytes.chain,
                    PublicKey |-> [type |-> bytes.keyType, owner |-> bytes.slot]],
          err |-> Nil]
    ELSE [cert |-> Null, err |-> "x509: malformed certificate"]

\* a.cert.verifyCert(rootCert, intermediaCert, leafCert): links, validity
\* windows and trust anchoring of the chain the three certificates form.
verifyCert(rootCert, intermediaCert, leafCert) ==
    IF rootCert.slot # 2 \/ intermediaCert.slot # 1 \/ leafCert.slot # 0
    THEN "BrokenChain"
    ELSE CASE leafCert.chain = "broken"    -> "BrokenChain"
           [] leafCert.chain = "expired"   -> "Expired"
           [] leafCert.chain = "untrusted" -> "UntrustedRoot"
           [] OTHER                        -> Nil

\* jwt.ParseWithClaims(transaction, tran, keyFunc) where keyFunc returns key:
\* the segments and claims must decode and the signature must verify under key.
jwtParseWithClaims(transaction, key) ==
    IF transaction.body # "ok" THEN "token is malformed"
    ELSE IF transaction.signedBy = key.owner THEN Nil
    ELSE "signature is invalid"

\* What a call returns: the transaction, the error and the calls it made.
PRet(tran, err, calls) == [tran |-> tran, err |-> err, calls |-> calls]

(***************************************************************************)
(* parseSignedTransaction (store.go 336-382).  The calls it makes are      *)
(* recorded in order in the `calls` field of what it returns.              *)
(***************************************************************************)
\* A parseSignedTransaction that trusts the leaf certificate as it comes,
\* without verifying the chain it belongs to.
parseSignedTransactionUnchained(transaction) ==
    LET leaf == extractCertByIndex(transaction, 0)
        c1   == <<"extractCertByIndex(0)">>
    IN
    IF leaf.err # Nil THEN PRet(Null, leaf.err, c1) ELSE
    LET leafCert == x509ParseCertificate(leaf.bytes)
        c2 == Append(c1, "ParseCertificate(leaf)")
    IN
    IF leafCert.err # Nil
    THEN PRet(Null, "appstore failed to parse leaf certificate", c2) ELSE
    LET pk == leafCert.cert.PublicKey IN
    IF pk.type # "ecdsa"
    THEN PRet(Null, "appstore public key must be of type ecdsa.PublicKey", c2) ELSE
    LET jerr == jwtParseWithClaims(transaction, pk)
        c3 == Append(c2, "jwt.ParseWithClaims")
    IN
    IF jerr # Nil THEN PRet(Null, jerr, c3)
    ELSE PRet([claims |-> transaction.id], Nil, c3)

parseSignedTransaction(transaction) ==
    LET tran == [claims |-> transaction.id]
        root == extractCertByIndex(transaction, 2)
        c1   == <<"extractCertByIndex(2)">>
    IN
    IF root.err # Nil THEN PRet(Null, root.err, c1) ELSE
    LET rootCert == x509ParseCertificate(root.bytes)
        c2 == Append(c1, "ParseCertificate(root)")
    IN
    IF rootCert.err # Nil
    THEN PRet(Null, "appstore failed to parse root certificate", c2) ELSE
    LET inter == extractCertByIndex(transaction, 1)
        c3 == Append(c2, "extractCertByIndex(1)")
    IN
    IF inter.err # Nil THEN PRet(Null, inter.err, c3) ELSE
    LET intermediaCert == x509ParseCertificate(inter.bytes)
        c4 == Append(c3, "ParseCertificate(intermediate)")
    IN
    IF intermediaCert.err # Nil
    THEN PRet(Null, "appstore failed to parse intermediate certificate", c4) ELSE
    LET leaf == extractCertByIndex(transaction, 0)
        c5 == Append(c4, "extractCertByIndex(0)")
    IN
    IF leaf.err # Nil THEN PRet(Null, leaf.err, c5) ELSE
    LET leafCert == x509ParseCertificate(leaf.bytes)
        c6 == Append(c5, "ParseCertificate(leaf)")
    IN
    IF leafCert.err # Nil
    THEN PRet(Null, "appstore failed to parse leaf certificate", c6) ELSE
    LET verr == verifyCert(rootCert.cert, intermediaCert.cert, leafCert.cert)
        c7 == Append(c6, "verifyCert")
    IN
    IF verr # Nil THEN PRet(Null, verr, c7) ELSE
    LET pk == leafCert.cert.PublicKey IN
    IF pk.type # "ecdsa"
    THEN PRet(Null, "appstore public key must be of type ecdsa.PublicKey", c7) ELSE
    LET jerr == jwtParseWithClaims(transaction, pk)
        c8 == Append(c7, "jwt.ParseWithClaims")
    IN
    IF jerr # Nil THEN PRet(Null, jerr, c8)
    ELSE PRet(tran, Nil, c8)

(***************************************************************************)
(* ParseSignedTransactions (store.go 324-334): one action per iteration of *)
(* the range loop, one for the return.                                     *)
(***************************************************************************)
\* A loop body in which a failing payload throws away what was collected.
LoopAppendAborting(res, out) ==
    IF out.err = Nil /\ out.tran # Null THEN Append(res, out.tran) ELSE <<>>

\* Lines 327-330: what one iteration leaves in `result`.
LoopAppend(res, out) ==
    IF out.err = Nil /\ out.tran # Null THEN Append(res, out.tran) ELSE res

ParseSignedTransactionsIter ==
    /\ vret = Null
    /\ idx < Len(transactions)
    /\ LET v   == transactions[idx + 1]
           out == parseSignedTransaction(v)
       IN /\ parsed' = Append(parsed, out)
          /\ result' = LoopAppend(result, out)
    /\ idx' = idx + 1
    /\ UNCHANGED <<transactions, vret>>
    /\ UNCHANGED apiVars

\* Line 333: return result, nil
ParseSignedTransactionsReturn ==
    /\ vret = Null
    /\ idx = Len(transactions)
    /\ vret' = [result |-> result, err |-> Nil]
    /\ UNCHANGED <<transactions, idx, result, parsed>>
    /\ UNCHANGED apiVars

(***************************************************************************)
(* Construction (store.go 33-73).                                          *)
(***************************************************************************)
NoClient == Null

\* StoreConfig: keyOk says whether KeyContent is a usable private key.
StoreConfigs == [keyOk : BOOLEAN, Sandbox : BOOLEAN]

\* Token.WithConfig: the Token takes over the credentials as they are.
WithConfig(config) == [keyOk |-> config.keyOk, Sandbox |-> config.Sandbox]

\* The value NewStoreClient / NewStoreClientWithHTTPClient return.  Neither
\* has an error result: the *StoreClient is all the caller gets.
StoreClientOf(config, httpClient) ==
    [Token |-> WithConfig(config), cert |-> "Cert{}", httpCli |-> httpClient]

(***************************************************************************)
(* The Token Issuer: the cached bearer token and its regeneration.         *)
(* Time is counted in abstract units; a bearer token is identified by its  *)
(* iat and exp claims.                                                     *)
(***************************************************************************)
\* The token string "" (no token).
EmptyString == [empty |-> TRUE]

SafetyMargin == 1
TokenLifetime == 3

\* The cached token is still usable at time t.
Fresh(c, t) == c # Null /\ c.expiredAt - SafetyMargin > t

\* Token.Generate at time t: a newly signed token, or a signing failure.
Generate(tok, t) ==
    IF tok.keyOk
    THEN [cached |-> [bearer |-> [iat |-> t, exp |-> t + TokenLifetime],
                      expiredAt |-> t + TokenLifetime],
          err |-> Nil]
    ELSE [cached |-> Null, err |-> "TokenGenerationError"]

\* Token.GenerateIfExpired at time t with cache c: the token string, the
\* error, and the cache it leaves.
GenerateIfExpired(tok, c, t) ==
    IF Fresh(c, t)
    THEN [token |-> c.bearer, err |-> Nil, cached |-> c]
    ELSE LET g == Generate(tok, t) IN
         IF g.err # Nil
         THEN [token |-> EmptyString, err |-> g.err, cached |-> c]
         ELSE [token |-> g.cached.bearer, err |-> Nil, cached |-> g.cached]

(***************************************************************************)
(* The server side and the HTTP client, as Do sees them.                   *)
(***************************************************************************)
StatusOK == 200
Cursors == {"", "r1", "r2"}

\* A decodable response body of a paginated endpoint.
Pages == [HasMore : BOOLEAN, cursor : Cursors]
Garbage == [garbage |-> TRUE]
ServerBodies == {Garbage} \cup Pages

\* json.Unmarshal(body, &rsp)
jsonUnmarshal(bytes) ==
    IF bytes = Garbage
    THEN [rsp |-> Null, err |-> "invalid character"]
    ELSE [rsp |-> bytes, err |-> Nil]

\* rsp.NotificationHistory of a decoded notification-history page.
NotificationHistoryOf(rsp) ==
    IF rsp.cursor = "" THEN <<>>
    ELSE IF rsp.cursor = "r1" THEN <<"n1">>
    ELSE <<"n2", "n3">>

\* bodyBuf after json.NewEncoder(bodyBuf).Encode(body): a bytes.Buffer holding
\* the JSON text and a newline.
jsonEncode(body) == [buf |-> <<body, "\n">>]

\* Number of bytes a reader holds (nil: none).
BodyLen(body) == IF body = Null THEN 0 ELSE Len(body.buf)

\* What a.httpCli.Do and io.ReadAll can do with a request whose body is
\* `body`: fail, answer and then fail while the body is read, or answer.
\* `read` is how much of the request body the client consumed.
NetOutcomes(body) ==
    [kind : {"fail"}, status : {0}, bytes : {Null}, read : 0..BodyLen(body)]
      \cup [kind : {"readfail"}, status : {StatusOK}, bytes : {Null},
            read : 0..BodyLen(body)]
      \cup [kind : {"resp"}, status : {StatusOK}, bytes : ServerBodies,
            read : 0..BodyLen(body)]
      \cup [kind : {"resp"}, status : {500}, bytes : {Garbage},
            read : 0..BodyLen(body)]

\* What is left in a reader after its first n bytes were read.
Drain(body, n) ==
    IF body = Null THEN Null ELSE [buf |-> SubSeq(body.buf, n + 1, Len(body.buf))]

(***************************************************************************)
(* Do (store.go 385-413) at time t, with token cache c.  The result        *)
(* records everything the call did: the calls made to GenerateIfExpired,   *)
(* the request handed to the HTTP client (Null if none), what the caller   *)
(* gets back, the cache and the body reader as the call leaves them.       *)
(***************************************************************************)
Bearer(authToken) == <<"Bearer ", authToken>>

DoRet(status, bytes, err) == [status |-> status, bytes |-> bytes, err |-> err]

\* What a Do invocation has done once GenerateIfExpired returned g.
DoBase(g, c, t, body) ==
    [at |-> t, before |-> c,
     tokenCalls |-> <<[token |-> g.token, err |-> g.err]>>,
     cached |-> g.cached, req |-> Null, body |-> body,
     ret |-> DoRet(0, Null, Nil)]

\* Lines 387-389: the token could not be generated.
DoTokenFailed(g, c, t, body) ==
    [DoBase(g, c, t, body) EXCEPT
       !.ret = DoRet(0, Null, "appstore generate token err")]

\* Lines 391-412: the request is built with authToken and sent.
DoSend(authToken, g, c, t, method, url, body, net) ==
    IF ~url.ok
    THEN [DoBase(g, c, t, body) EXCEPT
            !.ret = DoRet(0, Null, "appstore new http request err")]
    ELSE
    LET req == [method |-> method, url |-> url,
                body |-> IF body = Null THEN <<>> ELSE body.buf,
                ContentType |-> "application/json",
                Authorization |-> Bearer(authToken),
                UserAgent |-> "App Store Client"]
        sent == [DoBase(g, c, t, body) EXCEPT
                   !.req = req, !.body = Drain(body, net.read)]
    IN
    CASE net.kind = "fail" ->
           [sent EXCEPT !.ret = DoRet(0, Null, "appstore http client do err")]
      [] net.kind = "readfail" ->
           [sent EXCEPT !.ret = DoRet(net.status, Null, "appstore read http body err")]
      [] OTHER ->
           [sent EXCEPT !.ret = DoRet(net.status, net.bytes, Nil)]

\* A Do that goes on to send the request when no token could be generated.
DoIgnoringTokenError(cl, c, t, method, url, body, net) ==
    LET g == GenerateIfExpired(cl.Token, c, t)
    IN DoSend(g.token, g, c, t, method, url, body, net)

\* A Do that keeps using the token it found cached, whatever its age.
DoWithCachedToken(cl, c, t, method, url, body, net) ==
    LET g == GenerateIfExpired(cl.Token, c, t)
    IN IF g.err # Nil THEN DoTokenFailed(g, c, t, body)
       ELSE DoSend(IF c # Null THEN c.bearer ELSE g.token,
                   g, c, t, method, url, body, net)

Do(cl, c, t, method, url, body, net) ==
    LET g == GenerateIfExpired(cl.Token, c, t)
    IN IF g.err # Nil THEN DoTokenFailed(g, c, t, body)
       ELSE DoSend(g.token, g, c, t, method, url, body, net)

(***************************************************************************)
(* Endpoint operations.  An operation is started on a constructed client   *)
(* when no other is running.                                               *)
(***************************************************************************)
HostSandBox    == "https://api.storekit-sandbox.itunes.apple.com"
HostProduction == "https://api.storekit.itunes.apple.com"

PathLookUp                        == "/inApps/v1/lookup/{orderId}"
PathTransactionHistory            == "/inApps/v1/history/{originalTransactionId}"
PathRefundHistory                 == "/inApps/v2/refund/lookup/{originalTransactionId}"
PathGetALLSubscriptionStatus      == "/inApps/v1/subscriptions/{originalTransactionId}"
PathConsumptionInfo               == "/inApps/v1/transactions/consumption/{originalTransactionId}"
PathExtendSubscriptionRenewalDate == "/inApps/v1/subscriptions/extend/{originalTransactionId}"
PathGetNotificationHistory        == "/inApps/v1/notifications/history"
PathRequestTestNotification       == "/inApps/v1/notifications/test"
PathGetTestNotificationStatus     == "/inApps/v1/notifications/test/{testNotificationToken}"

\* URL := HostProduction + path; if a.Token.Sandbox { URL = HostSandBox + path };
\* the placeholder replaced by an identifier (ok: the result is a valid URL);
\* query: the revision / paginationToken the URL carries ("" for none).
URLOf(cl, path, ok, query) ==
    [host |-> IF cl.Token.Sandbox THEN HostSandBox ELSE HostProduction,
     path |-> path, ok |-> ok, query |-> query]

\* No operation has been called yet.
NoCall == [op |-> "none", pc |-> "done"]

Idle == client # NoClient /\ call = NoCall

\* The bookkeeping of one Do invocation d made by an operation whose earlier
\* requests and results are w and sv.
Record(w, sv, d) ==
    /\ cached' = d.cached
    /\ lastDo' = d
    /\ wire' = IF d.req = Null THEN w ELSE Append(w, d.req)
    /\ served' = Append(sv, d.ret)

\* The (rsp, err) pair of the single-request GET operations (lines 82-96).
DecodeSingle(d) ==
    IF d.ret.err # Nil THEN [rsp |-> Null, err |-> d.ret.err]
    ELSE IF d.ret.status # StatusOK
    THEN [rsp |-> Null, err |-> "appstore api: return status code"]
    ELSE LET u == jsonUnmarshal(d.ret.bytes) IN
         IF u.err # Nil THEN [rsp |-> Null, err |-> u.err]
         ELSE [rsp |-> u.rsp, err |-> Nil]

NewStoreClient ==
    /\ client = NoClient
    /\ \E config \in StoreConfigs : client' = StoreClientOf(config, "default")
    /\ UNCHANGED <<cached, now, call, wire, served, lastDo, ret>>
    /\ UNCHANGED verifyVars

NewStoreClientWithHTTPClient ==
    /\ client = NoClient
    /\ \E config \in StoreConfigs : client' = StoreClientOf(config, "custom")
    /\ UNCHANGED <<cached, now, call, wire, served, lastDo, ret>>
    /\ UNCHANGED verifyVars

\* The caller takes what the finished operation returned; the operation's
\* locals are gone.
TakeResult ==
    /\ call # NoCall
    /\ call.pc = "done"
    /\ call' = NoCall
    /\ wire' = <<>>
    /\ served' = <<>>
    /\ lastDo' = Null
    /\ ret' = Null
    /\ UNCHANGED <<client, cached, now>>
    /\ UNCHANGED verifyVars

\* The clock advances.
Tick ==
    /\ now < MaxTime
    /\ call = NoCall \/ call.pc = "loop"
    /\ now' = now + 1
    /\ UNCHANGED <<client, cached, call, wire, served, lastDo, ret>>
    /\ UNCHANGED verifyVars

GetALLSubscriptionStatuses ==
    /\ Idle
    /\ \E idOk \in BOOLEAN, net \in NetOutcomes(Null) :
         LET URL == URLOf(client, PathGetALLSubscriptionStatus, idOk, "")
             d   == Do(client, cached, now, "GET", URL, Null, net)
         IN /\ Record(<<>>, <<>>, d)
            /\ ret' = DecodeSingle(d)
    /\ call' = [op |-> "GetALLSubscriptionStatuses", pc |-> "done"]
    /\ UNCHANGED <<client, now>>
    /\ UNCHANGED verifyVars

LookupOrderID ==
    /\ Idle
    /\ \E idOk \in BOOLEAN, net \in NetOutcomes(Null) :
         LET URL == URLOf(client, PathLookUp, idOk, "")
             d   == Do(client, cached, now, "GET", URL, Null, net)
         IN /\ Record(<<>>, <<>>, d)
            /\ ret' = DecodeSingle(d)
    /\ call' = [op |-> "LookupOrderID", pc |-> "done"]
    /\ UNCHANGED <<client, now>>
    /\ UNCHANGED verifyVars

SendConsumptionInfo ==
    /\ Idle
    /\ \E idOk \in BOOLEAN :
         LET URL     == URLOf(client, PathConsumptionInfo, idOk, "")
             bodyBuf == jsonEncode("ConsumptionRequestBody")
         IN \E net \in NetOutcomes(bodyBuf) :
              LET d == Do(client, cached, now, "PUT", URL, bodyBuf, net)
              IN /\ Record(<<>>, <<>>, d)
                 /\ ret' = [statusCode |-> d.ret.status, err |-> d.ret.err]
    /\ call' = [op |-> "SendConsumptionInfo", pc |-> "done"]
    /\ UNCHANGED <<client, now>>
    /\ UNCHANGED verifyVars

ExtendSubscriptionRenewalDate ==
    /\ Idle
    /\ \E idOk \in BOOLEAN :
         LET URL     == URLOf(client, PathExtendSubscriptionRenewalDate, idOk, "")
             bodyBuf == jsonEncode("ExtendRenewalDateRequest")
         IN \E net \in NetOutcomes(bodyBuf) :
              LET d == Do(client, cached, now, "PUT", URL, bodyBuf, net)
              IN /\ Record(<<>>, <<>>, d)
                 /\ ret' = [statusCode |-> d.ret.status, err |-> d.ret.err]
    /\ call' = [op |-> "ExtendSubscriptionRenewalDate", pc |-> "done"]
    /\ UNCHANGED <<client, now>>
    /\ UNCHANGED verifyVars

SendRequestTestNotification ==
    /\ Idle
    /\ \E net \in NetOutcomes(Null) :
         LET URL == URLOf(client, PathRequestTestNotification, TRUE, "")
             d   == Do(client, cached, now, "POST", URL, Null, net)
         IN /\ Record(<<>>, <<>>, d)
            /\ ret' = d.ret
    /\ call' = [op |-> "SendRequestTestNotification", pc |-> "done"]
    /\ UNCHANGED <<client, now>>
    /\ UNCHANGED verifyVars

GetTestNotificationStatus ==
    /\ Idle
    /\ \E idOk \in BOOLEAN, net \in NetOutcomes(Null) :
         LET URL == URLOf(client, PathGetTestNotificationStatus, idOk, "")
             d   == Do(client, cached, now, "GET", URL, Null, net)
         IN /\ Record(<<>>, <<>>, d)
            /\ ret' = d.ret
    /\ call' = [op |-> "GetTestNotificationStatus", pc |-> "done"]
    /\ UNCHANGED <<client, now>>
    /\ UNCHANGED verifyVars

(***************************************************************************)
(* The paginated operations.  Each has an action for the code before the   *)
(* loop and an action for one pass of the loop; the pass that ends the     *)
(* loop returns.  The operation's locals live in `call`:                   *)
(*   idOk      - whether the identifier put into the URL leaves it valid;  *)
(*   query     - the revision / paginationToken the next URL carries;      *)
(*   bodyBuf   - the request body reader (Null for the GET operations);    *)
(*   responses - the result accumulated so far.                            *)
(***************************************************************************)
InitialRevisions == {"", "r1"}
NotificationRequests == {"NotificationHistoryRequest"}

Started(op, idOk, query, bodyBuf) ==
    [op |-> op, pc |-> "loop", idOk |-> idOk, query |-> query,
     bodyBuf |-> bodyBuf, responses |-> <<>>]

\* The operation returns (responses, err).
Returned(c, responses, err) ==
    [call |-> [c EXCEPT !.pc = "done"],
     ret  |-> [responses |-> responses, err |-> err]]

\* The operation goes round the loop once more.
Continued(c, responses, query, bodyBuf) ==
    [call |-> [c EXCEPT !.responses = responses, !.query = query,
                        !.bodyBuf = bodyBuf],
     ret  |-> Null]

\* A loop pass that hands back the pages fetched so far when a later
\* request fails.
TransactionHistoryPassKeepingPages(c, d) ==
    IF d.ret.err # Nil THEN Returned(c, c.responses, d.ret.err)
    ELSE IF d.ret.status # StatusOK
    THEN Returned(c, c.responses, "appstore api: return status code")
    ELSE LET u == jsonUnmarshal(d.ret.bytes) IN
    IF u.err # Nil THEN Returned(c, c.responses, u.err)
    ELSE LET responses == Append(c.responses, u.rsp) IN
    IF ~u.rsp.HasMore THEN Returned(c, responses, Nil)
    ELSE Continued(c, responses,
                   IF u.rsp.HasMore /\ u.rsp.cursor # "" THEN u.rsp.cursor
                   ELSE c.query,
                   d.body)

\* GetTransactionHistory, lines 136-161, after Do returned d.
TransactionHistoryPass(c, d) ==
    IF d.ret.err # Nil THEN Returned(c, NilSlice, d.ret.err)
    ELSE IF d.ret.status # StatusOK
    THEN Returned(c, NilSlice, "appstore api: return status code")
    ELSE LET u == jsonUnmarshal(d.ret.bytes) IN
    IF u.err # Nil THEN Returned(c, NilSlice, u.err)
    ELSE LET responses == Append(c.responses, u.rsp) IN
    IF ~u.rsp.HasMore THEN Returned(c, responses, Nil)
    ELSE Continued(c, responses,
                   IF u.rsp.HasMore /\ u.rsp.cursor # "" THEN u.rsp.cursor
                   ELSE c.query,
                   d.body)

\* GetRefundHistory, lines 177-204, after Do returned d.
RefundHistoryPass(c, d) ==
    IF d.ret.err # Nil THEN Returned(c, NilSlice, d.ret.err)
    ELSE IF d.ret.status # StatusOK
    THEN Returned(c, NilSlice, "appstore api: return status code")
    ELSE LET u == jsonUnmarshal(d.ret.bytes) IN
    IF u.err # Nil THEN Returned(c, NilSlice, u.err)
    ELSE LET responses == Append(c.responses, u.rsp) IN
    IF ~u.rsp.HasMore THEN Returned(c, responses, Nil)
    ELSE Continued(c, responses,
                   IF u.rsp.HasMore /\ u.rsp.cursor # "" THEN u.rsp.cursor
                   ELSE c.query,
                   d.body)

\* GetNotificationHistory, lines 267-295, after Do returned d.
NotificationHistoryPass(c, d) ==
    IF d.ret.err # Nil THEN Returned(c, NilSlice, d.ret.err)
    ELSE IF d.ret.status # StatusOK
    THEN Returned(c, NilSlice, "appstore api: return status code")
    ELSE LET u == jsonUnmarshal(d.ret.bytes) IN
    IF u.err # Nil THEN Returned(c, NilSlice, u.err)
    ELSE LET responses == c.responses \o NotificationHistoryOf(u.rsp) IN
    IF ~u.rsp.HasMore THEN Returned(c, responses, Nil)
    ELSE Continued(c, responses,
                   IF u.rsp.HasMore /\ u.rsp.cursor # "" THEN u.rsp.cursor
                   ELSE c.query,
                   d.body)

Running(op) ==
    /\ client # NoClient
    /\ call.op = op
    /\ call.pc = "loop"
    /\ Len(served) < MaxRequests

GetTransactionHistoryCall ==
    /\ Idle
    /\ \E idOk \in BOOLEAN, rev \in InitialRevisions :
         call' = Started("GetTransactionHistory", idOk, rev, Null)
    /\ UNCHANGED <<client, cached, now, wire, served, lastDo, ret>>
    /\ UNCHANGED verifyVars

GetTransactionHistoryPass ==
    /\ Running("GetTransactionHistory")
    /\ \E net \in NetOutcomes(call.bodyBuf) :
         LET URL == URLOf(client, PathTransactionHistory, call.idOk, call.query)
             d   == Do(client, cached, now, "GET", URL, call.bodyBuf, net)
             nxt == TransactionHistoryPass(call, d)
         IN /\ Record(wire, served, d)
            /\ call' = nxt.call
            /\ ret' = nxt.ret
    /\ UNCHANGED <<client, now>>
    /\ UNCHANGED verifyVars

GetRefundHistoryCall ==
    /\ Idle
    /\ \E idOk \in BOOLEAN :
         call' = Started("GetRefundHistory", idOk, "", Null)
    /\ UNCHANGED <<client, cached, now, wire, served, lastDo, ret>>
    /\ UNCHANGED verifyVars

GetRefundHistoryPass ==
    /\ Running("GetRefundHistory")
    /\ \E net \in NetOutcomes(call.bodyBuf) :
         LET URL == URLOf(client, PathRefundHistory, call.idOk, call.query)
             d   == Do(client, cached, now, "GET", URL, call.bodyBuf, net)
             nxt == RefundHistoryPass(call, d)
         IN /\ Record(wire, served, d)
            /\ call' = nxt.call
            /\ ret' = nxt.ret
    /\ UNCHANGED <<client, now>>
    /\ UNCHANGED verifyVars

GetNotificationHistoryCall ==
    /\ Idle
    /\ \E body \in NotificationRequests :
         call' = Started("GetNotificationHistory", TRUE, "", jsonEncode(body))
    /\ UNCHANGED <<client, cached, now, wire, served, lastDo, ret>>
    /\ UNCHANGED verifyVars

GetNotificationHistoryPass ==
    /\ Running("GetNotificationHistory")
    /\ \E net \in NetOutcomes(call.bodyBuf) :
         LET URL == URLOf(client, PathGetNotificationHistory, call.idOk, call.query)
             d   == Do(client, cached, now, "POST", URL, call.bodyBuf, net)
             nxt == NotificationHistoryPass(call, d)
         IN /\ Record(wire, served, d)
            /\ call' = nxt.call
            /\ ret' = nxt.ret
    /\ UNCHANGED <<client, now>>
    /\ UNCHANGED verifyVars

(***************************************************************************)
(* The specifications.                                                     *)
(***************************************************************************)
InitApi ==
    /\ client = NoClient
    /\ cached = Null
    /\ now = 0
    /\ call = NoCall
    /\ wire = <<>>
    /\ served = <<>>
    /\ lastDo = Null
    /\ ret = Null

InitVerifyIdle ==
    /\ transactions = <<>>
    /\ idx = 0
    /\ result = <<>>
    /\ parsed = <<>>
    /\ vret = Null

Init == InitApi /\ InitVerifyIdle

Next ==
    \/ NewStoreClient
    \/ NewStoreClientWithHTTPClient
    \/ Tick
    \/ TakeResult
    \/ GetALLSubscriptionStatuses
    \/ LookupOrderID
    \/ SendConsumptionInfo
    \/ ExtendSubscriptionRenewalDate
    \/ SendRequestTestNotification
    \/ GetTestNotificationStatus
    \/ GetTransactionHistoryCall
    \/ GetTransactionHistoryPass
    \/ GetRefundHistoryCall
    \/ GetRefundHistoryPass
    \/ GetNotificationHistoryCall
    \/ GetNotificationHistoryPass

Spec == Init /\ [][Next]_vars

\* ParseSignedTransactions is called with a list of payloads.
InitVerify ==
    /\ InitApi
    /\ transactions \in Batches
    /\ idx = 0
    /\ result = <<>>
    /\ parsed = <<>>
    /\ vret = Null

NextVerify ==
    \/ ParseSignedTransactionsIter
    \/ ParseSignedTransactionsReturn

SpecVerify == InitVerify /\ [][NextVerify]_vars

(***************************************************************************)
(* Properties of the signed-payload verification (under SpecVerify).       *)
(***************************************************************************)
AllCertsParsed(t) == \A s \in CertSlots : t.x5c[s] = "der"

\* The payload is genuine as far as trust goes: a full chain that verifies,
\* an ECDSA leaf key, and a signature made with the leaf's private key.
Trusted(t) ==
    AllCertsParsed(t) /\ t.chain = "ok" /\ t.leafKey = "ecdsa" /\ t.signedBy = 0

Made(calls, c) == \E j \in 1..Len(calls) : calls[j] = c

MadeBefore(calls, a, b) ==
    \A j \in 1..Len(calls) :
        calls[j] = b => \E i \in 1..(j - 1) : calls[i] = a

\* C1: parseSignedTransaction returns a decoded transaction only for a
\* payload whose three certificates were extracted and parsed, whose chain
\* verifyCert accepted, whose leaf key is an ECDSA key and whose signature
\* verifies under that key; for every other payload it returns nil and an
\* error; and jwt.ParseWithClaims is called only after verifyCert was called
\* and accepted the chain.
C1_DecodedOnlyWhenTrusted ==
    \A i \in 1..Len(parsed) :
        LET t == transactions[i]
            o == parsed[i]
        IN /\ o.tran # Null =>
                 Trusted(t) /\ o.err = Nil /\ o.tran = [claims |-> t.id]
           /\ ~Trusted(t) => o.tran = Null /\ o.err # Nil
           /\ Made(o.calls, "jwt.ParseWithClaims") =>
                 /\ AllCertsParsed(t)
                 /\ t.chain = "ok"
                 /\ Made(o.calls, "verifyCert")
                 /\ MadeBefore(o.calls, "verifyCert", "jwt.ParseWithClaims")

\* A trusted payload went through every step and has been decoded.
C1_Witness ==
    /\ Len(parsed) = 1
    /\ Trusted(transactions[1])
    /\ parsed[1].tran # Null
    /\ parsed[1].calls[Len(parsed[1].calls)] = "jwt.ParseWithClaims"

\* Chain verification or signature verification fails for payload t.
TrustFailure(t) ==
    AllCertsParsed(t) /\ (t.chain # "ok" \/ t.signedBy # 0)

\* C2: when chain or signature verification fails for a payload handed to
\* ParseSignedTransactions, the caller gets a non-nil error.
C2_TrustFailureIsReported ==
    (vret # Null /\ \E i \in 1..Len(transactions) : TrustFailure(transactions[i]))
        => vret.err # Nil

Passes(t) ==
    LET o == parseSignedTransaction(t) IN o.err = Nil /\ o.tran # Null

DecodedSeq(ts) == [i \in 1..Len(ts) |-> [claims |-> ts[i].id]]

\* C3: ParseSignedTransactions returns the decoded subsequence of the payloads
\* that pass parseSignedTransaction, in input order, duplicates kept; its
\* length is the number of passing payloads; every payload is parsed, whatever
\* happened to the ones before it.
C3_BatchIsFilteredInOrder ==
    /\ result = DecodedSeq(SelectSeq(SubSeq(transactions, 1, idx), Passes))
    /\ Len(parsed) = idx
    /\ vret # Null =>
          /\ idx = Len(transactions)
          /\ vret.result = DecodedSeq(SelectSeq(transactions, Passes))
          /\ Len(vret.result)
                = Cardinality({i \in 1..Len(transactions) : Passes(transactions[i])})

\* Three payloads, the second tampered with: the two others come back, in order.
C3_Witness ==
    /\ vret # Null
    /\ Len(transactions) = 3
    /\ Passes(transactions[1])
    /\ ~Passes(transactions[2])
    /\ Passes(transactions[3])
    /\ transactions[1].id # transactions[3].id
    /\ vret.result = <<[claims |-> transactions[1].id], [claims |-> transactions[3].id]>>

(***************************************************************************)
(* Properties of the client and its transport (under Spec).                *)
(***************************************************************************)
\* C5: a request goes on the wire only from Do, carrying "Bearer " and the
\* token the single GenerateIfExpired call of that Do invocation returned;
\* when that call fails, Do sends nothing and returns (0, nil, error).
C5_BearerOfThisCall ==
    /\ Len(wire) <= Len(served)
    /\ \A i \in 1..Len(wire) :
          /\ wire[i].Authorization[1] = "Bearer "
          /\ wire[i].Authorization[2] # EmptyString
    /\ lastDo # Null =>
          /\ Len(lastDo.tokenCalls) = 1
          /\ lastDo.req # Null =>
                /\ lastDo.tokenCalls[1].err = Nil
                /\ lastDo.req.Authorization = <<"Bearer ", lastDo.tokenCalls[1].token>>
                /\ wire[Len(wire)] = lastDo.req
          /\ lastDo.tokenCalls[1].err # Nil =>
                /\ lastDo.req = Null
                /\ lastDo.ret = [status |-> 0, bytes |-> Null,
                                 err |-> "appstore generate token err"]
                /\ served[Len(served)] = lastDo.ret

\* The second page of a refund history was requested with a token.
C5_Witness ==
    /\ lastDo # Null
    /\ lastDo.req # Null
    /\ call.op = "GetRefundHistory"
    /\ Len(wire) = 2

\* A Do failed at the token and sent nothing.
C5_WitnessTokenFailure ==
    /\ lastDo # Null
    /\ lastDo.tokenCalls[1].err # Nil
    /\ wire = <<>>

\* C6: a client is handed out only for usable credentials (a constructor
\* given an unusable private key reports the failure instead).
C6_BadCredentialsFailConstruction ==
    client # NoClient => client.Token.keyOk

\* C7: the token Do puts in the Authorization header is at the time of the
\* call still more than the safety margin away from its expiry; the cached
\* token is the one used while it is, and otherwise a newly signed token
\* with a later expiry replaces it in the cache and is the one used.
C7_TokenWithinItsWindow ==
    (lastDo # Null /\ lastDo.req # Null) =>
        LET tok == lastDo.req.Authorization[2]
            old == lastDo.before
        IN /\ tok.exp - SafetyMargin > lastDo.at
           /\ lastDo.cached.bearer = tok
           /\ lastDo.cached.expiredAt = tok.exp
           /\ IF old # Null /\ old.expiredAt - SafetyMargin > lastDo.at
              THEN lastDo.cached = old
              ELSE /\ tok.iat = lastDo.at
                   /\ old # Null =>
                         tok # old.bearer /\ tok.exp > old.expiredAt

\* A request went out with a token that replaced an expired cached one.
C7_Witness ==
    /\ lastDo # Null
    /\ lastDo.req # Null
    /\ lastDo.before # Null
    /\ lastDo.before.bearer # lastDo.req.Authorization[2]

Paginated == {"GetTransactionHistory", "GetRefundHistory", "GetNotificationHistory"}

\* Do returned a decodable page with status 200.
OkPage(r) == r.err = Nil /\ r.status = StatusOK /\ r.bytes \in Pages

RECURSIVE AllItems(_)
AllItems(sv) ==
    IF sv = <<>> THEN <<>>
    ELSE NotificationHistoryOf(sv[1].bytes) \o AllItems(Tail(sv))

\* What the operation returns for the pages sv it fetched.
Fetched(op, sv) ==
    IF op = "GetNotificationHistory" THEN AllItems(sv)
    ELSE [i \in 1..Len(sv) |-> sv[i].bytes]

\* C8: a paginated operation is still running exactly while every response
\* so far was a good page with HasMore set; it returns after the first
\* response that is not: all pages (items) in fetch order and no error if
\* that response is a good page (the only one with HasMore false), and
\* otherwise a nil result and an error.
C8_PaginationRunsToLastPage ==
    call.op \in Paginated =>
        LET n == Len(served) IN
        /\ \A i \in 1..(n - 1) : OkPage(served[i]) /\ served[i].bytes.HasMore
        /\ call.pc = "loop" =>
              /\ ret = Null
              /\ n > 0 => OkPage(served[n]) /\ served[n].bytes.HasMore
        /\ call.pc = "done" =>
              /\ n > 0
              /\ IF OkPage(served[n])
                 THEN /\ ~served[n].bytes.HasMore
                      /\ ret = [responses |-> Fetched(call.op, served), err |-> Nil]
                 ELSE /\ ret.responses = NilSlice
                      /\ ret.err # Nil

\* Two pages of notifications were fetched and their items returned.
C8_Witness ==
    /\ call.op = "GetNotificationHistory"
    /\ call.pc = "done"
    /\ Len(served) = 2
    /\ ret.err = Nil
    /\ Len(ret.responses) = 3

\* A failure after a good page: the operation returned an error.
C8_WitnessFailure ==
    /\ call.op = "GetTransactionHistory"
    /\ call.pc = "done"
    /\ Len(served) = 2
    /\ ret.err # Nil

\* C9: after a response with HasMore set, from a server that hands out a
\* cursor different from the one it was asked with (or an empty cursor), the
\* next request carries that response's cursor and differs from the request
\* before it.
C9_PaginationAdvances ==
    call.op \in Paginated =>
        \A i \in 2..Len(wire) :
            LET rsp == served[i - 1].bytes IN
            (rsp.cursor = "" \/ rsp.cursor # wire[i - 1].url.query) =>
                /\ wire[i].url.query = rsp.cursor
                /\ wire[i].url # wire[i - 1].url

\* C10: every request of GetNotificationHistory carries the encoded
\* NotificationHistoryRequest as its body.
C10_SameBodyOnEveryPage ==
    call.op = "GetNotificationHistory" =>
        \A i \in 1..Len(wire) :
            \E body \in NotificationRequests : wire[i].body = jsonEncode(body).buf

====
